---------------------------- MODULE Spec2Model ----------------------------
(***************************************************************************)
(* LAIOpt: the baseline placer (backend/core/baseline.py), the cost kernel *)
(* (backend/core/cost.py) and the simulated-annealing driver               *)
(* (backend/core/sa_engine.py) as a state machine.                         *)
(*                                                                         *)
(* Numbers.  Block and die sizes are Python floats.  A length is held here *)
(* as an integer count of 1/Res of a unit (Res = 2: halves), so that sizes *)
(* such as 1.5 and positions off the placement grid exist.  Block centres  *)
(* (x + w/2) are held in 1/(2*Res) of a unit.  Every float the code        *)
(* computes from such inputs by +, -, *, comparison and round() is exact   *)
(* in binary floating point, so the integer arithmetic below is the code's *)
(* arithmetic.  The one division of the baseline (power*power/dist**2) is  *)
(* held as an exact fraction.                                              *)
(***************************************************************************)
EXTENDS Integers, Sequences, FiniteSets, TLC

\* ------------------------------------------------------------------ units
\* Block.width / Block.height / Die.width are floats: counted in 1/Res.
Res == 2

\* sa_engine.py: PLACEMENT_PITCH = 1.0, in 1/Res.
PLACEMENT_PITCH == 1 * Res

\* ------------------------------------------------------------- arithmetic
Abs(a) == IF a < 0 THEN -a ELSE a

Min2(a, b) == IF a < b THEN a ELSE b

Max2(a, b) == IF a > b THEN a ELSE b

RECURSIVE GCD(_, _)
GCD(a, b) == IF b = 0 THEN a ELSE GCD(b, a % b)

LCM(a, b) == (a \div GCD(a, b)) * b

\* a fraction n/d, d > 0, in lowest terms
Frac(n, d) == LET g == GCD(Abs(n), d) IN
              IF n = 0 THEN [n |-> 0, d |-> 1] ELSE [n |-> n \div g, d |-> d \div g]

FracAdd(p, q) == LET l == LCM(p.d, q.d) IN
                 Frac(p.n * (l \div p.d) + q.n * (l \div q.d), l)

\* round() with every tie rounded up: floor(v/den + 1/2)
PyRoundHalfUp(v, den) == (2 * v + den) \div (2 * den)

\* Python's round(): to the nearest integer, a tie to the even one.  v is a
\* count of 1/den; the result is an integer.
PyRound(v, den) ==
    LET q == v \div den
        r == v % den
    IN  IF 2 * r < den THEN q
        ELSE IF 2 * r > den THEN q + 1
        ELSE IF q % 2 = 0 THEN q ELSE q + 1

\* snap_to_grid that returns its argument
snap_to_gridRaw(val, pitch) == val

\* sa_engine.py snap_to_grid: round(val / pitch) * pitch
snap_to_grid(val, pitch) == PyRound(val, pitch) * pitch

\* --------------------------------------------------------------- inputs
VARIABLES
    blocks,             \* List[Block]: a sequence of [id, width, height, power]
    nets,               \* List[Net]: a sequence of [blocks, weight]
    die,                \* Die: [width, height]
    entry,              \* which entry point was called: "baseline_place",
                        \* "simulated_annealing" or "snap_to_grid"
    snap_call,          \* a direct call of snap_to_grid: [val, pitch, done, result]
    \* baseline_place's locals
    sorted_blocks,      \* sorted(blocks, key=get_inflexibility_score, reverse=True)
    placement,          \* dict id -> <<x, y>>
    occupied_spaces,    \* list of [x, y, w, h, power, id]
    bi,                 \* how many blocks of sorted_blocks the loop has passed
    used_fallback,      \* ids whose position came from find_fallback_spot
    bret                \* baseline_place's return: [kind: "pending" | "None" | "placement", value]

bvars == <<sorted_blocks, placement, occupied_spaces, bi, used_fallback, bret>>

ivars == <<blocks, nets, die, entry, snap_call>>

VARIABLES
    cfg,                \* initial_temperature, final_temperature, alpha, k_steps, move_scale
    pc,                 \* where simulated_annealing is
    current_place, current_orient, current_cost,
    best_place, best_orient, best_cost,
    cost_history,
    temperature,        \* a fraction [n, d]
    rejection_rate,     \* a fraction [n, d]
    iteration_counter,
    reject_count,
    step,               \* how many passes of `for _ in range(k_steps)` are done
    state_idx,
    q_table,            \* agent.q_table, 3 x 3, in 10^-6
    next_place, next_orient,
    move,               \* the last pass of the inner loop: what it did
    callback_log        \* the arguments of every callback call

savars == <<cfg, pc, current_place, current_orient, current_cost, best_place,
            best_orient, best_cost, cost_history, temperature, rejection_rate,
            iteration_counter, reject_count, step, state_idx, q_table,
            next_place, next_orient, move, callback_log>>

vars == <<ivars, bvars, savars>>

BlockIds == {blocks[i].id : i \in 1..Len(blocks)}

\* ------------------------------------------------------------- baseline
RECURSIVE PairSum(_, _, _, _)
\* one net's contribution to adj_map[u][v] (baseline.py 51-61): every i < j
\* adds the weight to [blocks[i]][blocks[j]] and to [blocks[j]][blocks[i]]
PairSum(net, u, v, k) ==
    LET n == Len(net.blocks)
        i == ((k - 1) \div n) + 1
        j == ((k - 1) % n) + 1
        here == IF i < j
                THEN (IF net.blocks[i] = u /\ net.blocks[j] = v THEN net.weight ELSE 0)
                   + (IF net.blocks[j] = u /\ net.blocks[i] = v THEN net.weight ELSE 0)
                ELSE 0
    IN  IF k > n * n THEN 0 ELSE here + PairSum(net, u, v, k + 1)

RECURSIVE AdjSum(_, _, _)
AdjSum(u, v, k) ==
    IF k > Len(nets) THEN 0 ELSE PairSum(nets[k], u, v, 1) + AdjSum(u, v, k + 1)

adj_map(u, v) == AdjSum(u, v, 1)

\* every id a net names: the keys a row of adj_map can hold
NetIds == UNION {{nets[k].blocks[i] : i \in 1..Len(nets[k].blocks)} : k \in 1..Len(nets)}

RECURSIVE SetSum(_, _, _)
SetSum(S, u, acc) ==
    IF S = {} THEN acc
    ELSE LET v == CHOOSE x \in S : TRUE IN SetSum(S \ {v}, u, acc + adj_map(u, v))

connectivity_score(id) == SetSum(NetIds, id, 0)

\* get_inflexibility_score, times Res*Res (the area term is in 1/Res^2)
get_inflexibility_score(b) ==
      b.width * b.height
    + connectivity_score(b.id) * 10 * Res * Res
    + b.power * 10 * Res * Res
    + Max2(b.width, b.height) * 10 * Res

\* sorted(blocks, key=get_inflexibility_score, reverse=True): descending and
\* stable (equal keys keep the input order).
RECURSIVE KeysFrom(_)
KeysFrom(i) ==
    IF i > Len(blocks) THEN <<>>
    ELSE <<get_inflexibility_score(blocks[i])>> \o KeysFrom(i + 1)

RECURSIVE InsertAll(_, _, _)
\* the indices 1..n in sorted order, inserted from the last to the first: index i
\* goes behind the indices already placed whose key is larger, before the others
InsertAll(key, i, acc) ==
    IF i = 0 THEN acc
    ELSE LET at == Cardinality({p \in 1..Len(acc) : key[acc[p]] > key[i]})
         IN  CHOOSE r \in {InsertAll(key, i - 1, nxt) :
                     nxt \in {SubSeq(acc, 1, at) \o <<i>> \o SubSeq(acc, at + 1, Len(acc))}} : TRUE

RECURSIVE InsertAllTiesLast(_, _, _)
\* the insertion with an index going behind the indices of equal key
InsertAllTiesLast(key, i, acc) ==
    IF i = 0 THEN acc
    ELSE LET at == Cardinality({p \in 1..Len(acc) : key[acc[p]] >= key[i]})
         IN  CHOOSE r \in {InsertAllTiesLast(key, i - 1, nxt) :
                     nxt \in {SubSeq(acc, 1, at) \o <<i>> \o SubSeq(acc, at + 1, Len(acc))}} : TRUE

\* a descending sort that reverses the input order of equal keys
SortedBlocksTiesLast ==
    CHOOSE s \in {[r \in 1..Len(blocks) |-> blocks[order[r]]] :
                    order \in {InsertAllTiesLast(key, Len(blocks), <<>>) : key \in {KeysFrom(1)}}} : TRUE

SortedBlocks ==
    CHOOSE s \in {[r \in 1..Len(blocks) |-> blocks[order[r]]] :
                    order \in {InsertAll(key, Len(blocks), <<>>) : key \in {KeysFrom(1)}}} : TRUE


\* check_overlap with `return False` inside the loop: only the first rectangle
\* of `occupied` is tested
check_overlapFirstOnly(nx, ny, nw, nh, occupied) ==
    /\ Len(occupied) > 0
    /\ nx < occupied[1].x + occupied[1].w /\ nx + nw > occupied[1].x
    /\ ny < occupied[1].y + occupied[1].h /\ ny + nh > occupied[1].y

\* check_overlap: strict AABB test against every rectangle of `occupied`

check_overlap(nx, ny, nw, nh, occupied) ==
    \E k \in 1..Len(occupied) :
        /\ nx < occupied[k].x + occupied[k].w /\ nx + nw > occupied[k].x
        /\ ny < occupied[k].y + occupied[k].h /\ ny + nh > occupied[k].y

NoSpot == <<-1, -1>>

\* a scan that returns its first position without calling check_overlap
find_fallback_spotFirst(b_width, b_height) ==
    IF b_width <= die.width /\ b_height <= die.height THEN <<0, 0>> ELSE NoSpot

\* a scan in steps of 2.0
find_fallback_spotCoarse(b_width, b_height) ==
    LET scanned == {p \in (0..die.width) \X (0..die.height) :
                       /\ p[1] % (2 * Res) = 0 /\ p[1] <= die.width - b_width
                       /\ p[2] % (2 * Res) = 0 /\ p[2] <= die.height - b_height}
        free == {p \in scanned : ~check_overlap(p[1], p[2], b_width, b_height, occupied_spaces)}
    IN  IF free = {} THEN NoSpot
        ELSE CHOOSE p \in free : \A q \in free : p[2] < q[2] \/ (p[2] = q[2] /\ p[1] <= q[1])

\* find_fallback_spot: curr_y = 0.0, 1.0, ... while curr_y <= die.height - b_height,
\* inside it curr_x likewise; the first position check_overlap lets through, else None
find_fallback_spot(b_width, b_height) ==
    LET step_x == 1 * Res
        step_y == 1 * Res
        scanned == {p \in (0..die.width) \X (0..die.height) :
                       /\ p[1] % step_x = 0 /\ p[1] <= die.width - b_width
                       /\ p[2] % step_y = 0 /\ p[2] <= die.height - b_height}
        free == {p \in scanned : ~check_overlap(p[1], p[2], b_width, b_height, occupied_spaces)}
    IN  IF free = {} THEN NoSpot
        ELSE CHOOSE p \in free : \A q \in free : p[2] < q[2] \/ (p[2] = q[2] /\ p[1] <= q[1])

ALPHA_WALL == 1000

BETA_WIRE == 5

GAMMA_THERMAL == 5000

\* the four corners, then right / top / left / bottom of every placed rectangle
raw_candidates(w, h) ==
    LET corners == << <<0, 0>>, <<0, die.height - h>>,
                      <<die.width - w, 0>>, <<die.width - w, die.height - h>> >>
        adjacent == [k \in 1..(4 * Len(occupied_spaces)) |->
            LET o == occupied_spaces[((k - 1) \div 4) + 1]
                side == (k - 1) % 4
            IN  IF side = 0 THEN <<o.x + o.w, o.y>>
                ELSE IF side = 1 THEN <<o.x, o.y + o.h>>
                ELSE IF side = 2 THEN <<o.x - w, o.y>>
                ELSE <<o.x, o.y - h>>]
    IN  corners \o adjacent

\* B. strict filter: inside the die and overlapping nothing placed
IsLegal(c, w, h) ==
    /\ ~(c[1] < 0 \/ c[2] < 0 \/ c[1] + w > die.width \/ c[2] + h > die.height)
    /\ ~check_overlap(c[1], c[2], w, h, occupied_spaces)

valid_candidates(w, h) ==
    LET Keep(c) == IsLegal(c, w, h) IN SelectSeq(raw_candidates(w, h), Keep)

\* centre-to-centre Manhattan distance, max(dist, 1.0), in 1/(2*Res)
CandDist(c, w, h, o) ==
    Max2(Abs((2 * c[1] + w) - (2 * o.x + o.w)) + Abs((2 * c[2] + h) - (2 * o.y + o.h)),
         2 * Res)

RECURSIVE WireSum(_, _, _, _, _)
WireSum(block, c, w, h, k) ==
    IF k > Len(occupied_spaces) THEN 0
    ELSE LET o == occupied_spaces[k]
             weight == adj_map(block.id, o.id)
         IN  (IF weight > 0 THEN CandDist(c, w, h, o) * weight ELSE 0)
             + WireSum(block, c, w, h, k + 1)

RECURSIVE ThermalSum(_, _, _, _, _)
ThermalSum(block, c, w, h, k) ==
    IF k > Len(occupied_spaces) THEN Frac(0, 1)
    ELSE LET o == occupied_spaces[k]
             d == CandDist(c, w, h, o)
             here == IF block.power > 0 /\ o.power > 0
                     THEN Frac(block.power * o.power, d * d) ELSE Frac(0, 1)
         IN  FracAdd(here, ThermalSum(block, c, w, h, k + 1))

\* total_score of one candidate, times 2*Res: the integer part
\* (cost_wall + cost_wire * BETA_WIRE) and the fraction cost_thermal, which
\* enters with GAMMA_THERMAL * (2*Res)^3
total_score(block, c) ==
    LET w == block.width
        h == block.height
        dist_wall == Min2(Min2(c[1], die.width - (c[1] + w)),
                          Min2(c[2], die.height - (c[2] + h)))
    IN  [int |-> dist_wall * 2 * ALPHA_WALL + WireSum(block, c, w, h, 1) * BETA_WIRE,
         thermal |-> ThermalSum(block, c, w, h, 1)]

RECURSIVE FracLess(_, _, _, _)
\* a/b < c/d for 0 <= a < b and 0 <= c < d, by the Euclidean expansion of both
FracLess(a, b, c, d) ==
    IF c = 0 THEN FALSE
    ELSE IF a = 0 THEN TRUE
    ELSE IF b \div a # d \div c THEN b \div a > d \div c
    ELSE FracLess(d % c, c, b % a, a)

\* s < t and s = t on total scores: the integer parts of
\* int + GAMMA_THERMAL * (2*Res)^3 * thermal are compared first, then the
\* fractional parts
ScoreLess(s, t) ==
    LET g == GAMMA_THERMAL * (2 * Res) * (2 * Res) * (2 * Res)
        whole == (s.int + (g * s.thermal.n) \div s.thermal.d)
                 - (t.int + (g * t.thermal.n) \div t.thermal.d)
    IN  IF whole # 0 THEN whole < 0
        ELSE FracLess((g * s.thermal.n) % s.thermal.d, s.thermal.d,
                      (g * t.thermal.n) % t.thermal.d, t.thermal.d)

ScoreEq(s, t) == ~ScoreLess(s, t) /\ ~ScoreLess(t, s)

RECURSIVE SelectLoopNoTie(_, _, _, _, _, _)
\* the selection loop without the `elif total_score == best_score` branch
SelectLoopNoTie(block, cands, k, isInf, best_score, best_pos) ==
    IF k > Len(cands) THEN best_pos
    ELSE CHOOSE r \in
        { IF isInf \/ ScoreLess(s, best_score)
          THEN SelectLoopNoTie(block, cands, k + 1, FALSE, s, cands[k])
          ELSE SelectLoopNoTie(block, cands, k + 1, FALSE, best_score, best_pos)
          : s \in {total_score(block, cands[k])} } : TRUE

RECURSIVE SelectLoop(_, _, _, _, _, _)
\* C. the selection loop (baseline.py 248-330): best_score = inf, best_pos =
\* valid_candidates[0]; a strictly smaller score replaces both, an equal score
\* replaces best_pos when its x + y is smaller
SelectLoop(block, cands, k, isInf, best_score, best_pos) ==
    IF k > Len(cands) THEN best_pos
    ELSE CHOOSE r \in
        { IF isInf \/ ScoreLess(s, best_score)
          THEN SelectLoop(block, cands, k + 1, FALSE, s, cands[k])
          ELSE IF ScoreEq(s, best_score)
                  /\ (cands[k][1] + cands[k][2]) < (best_pos[1] + best_pos[2])
          THEN SelectLoop(block, cands, k + 1, FALSE, best_score, cands[k])
          ELSE SelectLoop(block, cands, k + 1, FALSE, best_score, best_pos)
          : s \in {total_score(block, cands[k])} } : TRUE

\* final_pos of the block the loop is at, given its valid_candidates: the best
\* smart candidate, else the fallback spot, else NoSpot (the call returns None)
final_pos_of(block, cands) ==
    IF Len(cands) > 0
    THEN SelectLoop(block, cands, 1, TRUE, [int |-> 0, thermal |-> Frac(0, 1)], cands[1])
    ELSE find_fallback_spot(block.width, block.height)

Pending == [kind |-> "pending", value |-> <<>>]

\* a failure that hands back what was committed so far
ReturnNonePartial == [kind |-> "placement", value |-> placement]

\* baseline.py 347: return None
ReturnNone == [kind |-> "None", value |-> <<>>]

\* one pass of `for block in sorted_blocks` (baseline.py 180-351)
BaselineStep ==
    /\ bret.kind = "pending"
    /\ bi < Len(blocks)
    /\ \E block \in {sorted_blocks[bi + 1]} :
       \E cands \in {valid_candidates(block.width, block.height)} :
       \E final_pos \in {final_pos_of(block, cands)} :
           /\ used_fallback' = IF Len(cands) = 0 THEN used_fallback \cup {block.id}
                               ELSE used_fallback
           /\ IF final_pos = NoSpot
              THEN /\ bret' = ReturnNone
                   /\ UNCHANGED <<placement, occupied_spaces, bi>>
              ELSE /\ placement' = [id \in DOMAIN placement \cup {block.id} |->
                                       IF id = block.id THEN final_pos ELSE placement[id]]
                   /\ occupied_spaces' = Append(occupied_spaces,
                          [x |-> final_pos[1], y |-> final_pos[2], w |-> block.width,
                           h |-> block.height, power |-> block.power, id |-> block.id])
                   /\ bi' = bi + 1
                   /\ UNCHANGED bret
    /\ UNCHANGED <<ivars, savars, sorted_blocks>>

\* baseline.py 353: return placement
BaselineReturn ==
    /\ bret.kind = "pending"
    /\ bi = Len(blocks)
    /\ bret' = [kind |-> "placement", value |-> placement]
    /\ UNCHANGED <<sorted_blocks, placement, occupied_spaces, bi, used_fallback>>
    /\ UNCHANGED <<ivars, savars>>

\* ----------------------------------------------------------------- cost
\* A cost is held times CostScale, so that the wirelength (centres in
\* 1/(2*Res)) and the overlap area (in 1/Res^2) are integers.
CostScale == 2 * Res * Res

OVERLAP_WEIGHT == 10000

BOUNDARY_PENALTY == 10000

THERMAL_SPREAD_K == 100

MAX_SAFE_TEMP == 100

CENTER_PENALTY_WEIGHT == 2500

\* THERMAL_CUTOFF_DIST ** 2 = THERMAL_SPREAD_K * 9.21 = 921.0
THERMAL_CUTOFF_SQ == 921

\* resolution of the two terms that are not rational (exp, sqrt): 10^-6 and 10^-3
Micro == 1000000

Milli == 1000

BlockOf(id) == blocks[CHOOSE i \in 1..Len(blocks) : blocks[i].id = id]

\* get_effective_dims: orientations.get(block.id, False)
get_effective_dims(block, orientations) ==
    IF block.id \in DOMAIN orientations /\ orientations[block.id]
    THEN <<block.height, block.width>>
    ELSE <<block.width, block.height>>

\* get_center, in 1/(2*Res): (x + w/2, y + h/2)
get_center(x, y, block, orientations) ==
    LET d == get_effective_dims(block, orientations)
    IN  <<2 * x + d[1], 2 * y + d[2]>>

SetMax(S) == CHOOSE m \in S : \A v \in S : v <= m

SetMin(S) == CHOOSE m \in S : \A v \in S : m <= v

\* one net's HPWL in 1/(2*Res): members that are placed and known, > 1 of them
NetHpwl(net, pl, orientations) ==
    LET members == {i \in 1..Len(net.blocks) :
                       net.blocks[i] \in DOMAIN pl /\ net.blocks[i] \in BlockIds}
        cx(i) == get_center(pl[net.blocks[i]][1], pl[net.blocks[i]][2],
                            BlockOf(net.blocks[i]), orientations)[1]
        cy(i) == get_center(pl[net.blocks[i]][1], pl[net.blocks[i]][2],
                            BlockOf(net.blocks[i]), orientations)[2]
        xs == {cx(i) : i \in members}
        ys == {cy(i) : i \in members}
    IN  IF Cardinality(members) > 1
        THEN (SetMax(xs) - SetMin(xs)) + (SetMax(ys) - SetMin(ys))
        ELSE 0

RECURSIVE HpwlSum(_, _, _)
HpwlSum(pl, orientations, k) ==
    IF k > Len(nets) THEN 0
    ELSE NetHpwl(nets[k], pl, orientations) * nets[k].weight
         + HpwlSum(pl, orientations, k + 1)

compute_hpwl_wirelength(pl, orientations) == HpwlSum(pl, orientations, 1) * Res

\* the overlap area of blocks i < j of the list, in 1/Res^2 (0 when none)
PairOverlap(pl, orientations, i, j) ==
    IF blocks[i].id \notin DOMAIN pl \/ blocks[j].id \notin DOMAIN pl THEN 0
    ELSE LET a == pl[blocks[i].id]
             b == pl[blocks[j].id]
             ad == get_effective_dims(blocks[i], orientations)
             bd == get_effective_dims(blocks[j], orientations)
             overlap_w == Min2(a[1] + ad[1], b[1] + bd[1]) - Max2(a[1], b[1])
             overlap_h == Min2(a[2] + ad[2], b[2] + bd[2]) - Max2(a[2], b[2])
         IN  IF overlap_w > 0 /\ overlap_h > 0 THEN overlap_w * overlap_h ELSE 0

RECURSIVE OverlapSum(_, _, _)
OverlapSum(pl, orientations, k) ==
    LET n == Len(blocks)
        i == ((k - 1) \div n) + 1
        j == ((k - 1) % n) + 1
    IN  IF k > n * n THEN 0
        ELSE (IF i < j THEN PairOverlap(pl, orientations, i, j) ELSE 0)
             + OverlapSum(pl, orientations, k + 1)

compute_overlap_penalty(pl, orientations) ==
    OverlapSum(pl, orientations, 1) * OVERLAP_WEIGHT * 2

\* the boundary gate of one block: x < -0.01 or y < -0.01 or x + w > die.width + 0.01
\* or y + h > die.height + 0.01; the 0.01 is below 1/Res, so on counts of 1/Res
\* the gate is the strict comparison
OutOfDie(pos, dims) ==
    \/ pos[1] < 0 \/ pos[2] < 0
    \/ pos[1] + dims[1] > die.width \/ pos[2] + dims[2] > die.height

compute_boundary_penalty(pl, orientations) ==
    Cardinality({i \in 1..Len(blocks) :
        /\ blocks[i].id \in DOMAIN pl
        /\ OutOfDie(pl[blocks[i].id], get_effective_dims(blocks[i], orientations))})
    * BOUNDARY_PENALTY * CostScale

RECURSIVE ExpHorner(_, _)
\* exp(-k / (THERMAL_SPREAD_K * (2*Res)^2)) in 10^-6, k a squared distance in
\* 1/(2*Res)^2: the series 1 - x(1 - x/2(1 - x/3(...))) cut after 9 terms
ExpHorner(k, i) ==
    IF i > 9 THEN Micro
    ELSE Micro - (k * ExpHorner(k, i + 1)) \div (THERMAL_SPREAD_K * (2 * Res) * (2 * Res) * i)

\* exp(-1) in 10^-6
EXP_M1 == 367879

RECURSIVE ExpScale(_, _)
\* v * exp(-n), v in 10^-6; the product is taken on the two halves of v
ExpScale(v, n) ==
    IF n = 0 THEN v
    ELSE ExpScale(((v \div Milli) * EXP_M1) \div Milli
                  + ((v % Milli) * EXP_M1) \div Micro, n - 1)

\* math.exp(-dist_sq / THERMAL_SPREAD_K) in 10^-6: exp(-n) * exp(-x), 0 <= x < 1
ExpMicro(k) ==
    LET one == THERMAL_SPREAD_K * (2 * Res) * (2 * Res)
    IN  ExpScale(ExpHorner(k % one, 1), k \div one)

RECURSIVE SqrtLoop(_, _, _)
SqrtLoop(v, lo, hi) ==
    IF lo >= hi THEN lo
    ELSE LET mid == (lo + hi + 1) \div 2
         IN  IF mid * mid <= v THEN SqrtLoop(v, mid, hi) ELSE SqrtLoop(v, lo, mid - 1)

\* floor(sqrt(v)), v < 2^31
ISqrt(v) == SqrtLoop(v, 0, 46340)

\* cost.py 164-165: the victim's centre is taken with `block`, the variable the
\* aggressor loop (cost.py 147) left behind: the last block of the list.
VictimCentre(pl, orientations, v) ==
    LET victim == blocks[v]
        block == blocks[Len(blocks)]
    IN  get_center(pl[victim.id][1], pl[victim.id][2], block, orientations)

\* cost.py 162-188: the victim's temperature, in 10^-3, with its centre at vc
VictimTempAt(pl, orientations, v, vc) ==
    LET aggressors == {i \in 1..Len(blocks) : blocks[i].id \in DOMAIN pl /\ blocks[i].power > 0}
        victim == blocks[v]
        heat(a) ==
            LET ac == get_center(pl[blocks[a].id][1], pl[blocks[a].id][2], blocks[a], orientations)
                manhattan_dist == Abs(vc[1] - ac[1]) + Abs(vc[2] - ac[2])
                dist_sq == (vc[1] - ac[1]) * (vc[1] - ac[1]) + (vc[2] - ac[2]) * (vc[2] - ac[2])
            IN  IF victim.id = blocks[a].id THEN 0
                \* manhattan_dist > THERMAL_CUTOFF_DIST * 1.414 (42.91...)
                ELSE IF manhattan_dist * 100 > 4291 * 2 * Res THEN 0
                ELSE IF dist_sq > THERMAL_CUTOFF_SQ * (2 * Res) * (2 * Res) THEN 0
                ELSE (blocks[a].power * ExpMicro(dist_sq)) \div (Micro \div Milli)
        RECURSIVE HeatSum(_)
        HeatSum(a) == IF a > Len(blocks) THEN 0
                      ELSE (IF a \in aggressors THEN heat(a) ELSE 0) + HeatSum(a + 1)
    IN  victim.power * 10 * Milli + HeatSum(1)

VictimTemp(pl, orientations, v) ==
    VictimTempAt(pl, orientations, v, VictimCentre(pl, orientations, v))

\* the violation entering the penalty without the square
ViolationCostLinear(current_temp) ==
    LET violation == current_temp - MAX_SAFE_TEMP * Milli
    IN  IF violation > 0 THEN (violation * CostScale) \div Milli ELSE 0

\* cost.py 191-193: (current_temp - MAX_SAFE_TEMP) ** 2 above the threshold,
\* in 1/CostScale
ViolationCost(current_temp) ==
    LET violation == current_temp - MAX_SAFE_TEMP * Milli
    IN  IF violation > 0
        THEN ((violation \div 10) * (violation \div 10)) \div (10000 \div CostScale)
        ELSE 0

RECURSIVE ThermalCostSum(_, _, _)
ThermalCostSum(pl, orientations, v) ==
    IF v > Len(blocks) THEN 0
    ELSE (IF blocks[v].id \in DOMAIN pl
          THEN ViolationCost(VictimTemp(pl, orientations, v)) ELSE 0)
         + ThermalCostSum(pl, orientations, v + 1)

compute_thermal_penalty(pl, orientations) ==
    IF {i \in 1..Len(blocks) : blocks[i].id \in DOMAIN pl /\ blocks[i].power > 0} = {}
    THEN 0
    ELSE ThermalCostSum(pl, orientations, 1)

RECURSIVE CenterSum(_, _, _)
\* sum of center_score * block.power, center_score = 1 - dist/max_dist in 10^-3
CenterSum(pl, orientations, i) ==
    IF i > Len(blocks) THEN 0
    ELSE LET b == blocks[i]
             c == get_center(pl[b.id][1], pl[b.id][2], b, orientations)
             \* the die centre in 1/(2*Res) is (die.width, die.height)
             dsq == (c[1] - die.width) * (c[1] - die.width)
                    + (c[2] - die.height) * (c[2] - die.height)
             msq == die.width * die.width + die.height * die.height
             \* (dsq * Micro) \div msq, by long division
             ratio_sq == ((dsq * Milli) \div msq) * Milli
                         + (((dsq * Milli) % msq) * Milli) \div msq
             center_score == Milli - ISqrt(ratio_sq)
         IN  (IF b.id \in DOMAIN pl /\ b.power > 0 THEN center_score * b.power ELSE 0)
             + CenterSum(pl, orientations, i + 1)

\* the sum of the scores without CENTER_PENALTY_WEIGHT
compute_center_penaltyUnweighted(pl, orientations) ==
    (CenterSum(pl, orientations, 1) * CostScale) \div Milli

\* cost.py 236: total_penalty * CENTER_PENALTY_WEIGHT, in 1/CostScale
compute_center_penalty(pl, orientations) ==
    CenterSum(pl, orientations, 1) * ((CENTER_PENALTY_WEIGHT * CostScale) \div Milli)

total_cost(pl, orientations) ==
      compute_hpwl_wirelength(pl, orientations)
    + compute_overlap_penalty(pl, orientations)
    + compute_boundary_penalty(pl, orientations)
    + compute_thermal_penalty(pl, orientations)
    + compute_center_penalty(pl, orientations)

\* ------------------------------------------------------------ SA driver
\* the cap on outer iterations explored (a run that does not cool has no end
\* before the history cap)
MaxOuter == 2

\* k_steps is drawn from 1..MaxK
MaxK == 2

\* len(cost_history) > 8000: break
HISTORY_CAP == 8000

agent_actions == <<"displace", "swap", "rotate">>

\* RLAgent.__init__: lr = 0.1, gamma = 0.9, as n/10
LR10 == 1

GAMMA10 == 9

\* what the last pass of the inner loop did, without its own `prev`
NoPrev == [type |-> "none", ids |-> {}, action_idx |-> 0, delta_cost |-> 0,
           reward |-> 0, accepted |-> FALSE, evaluated |-> FALSE, moved |-> {},
           draw |-> FALSE]

Strip(m) == [f \in DOMAIN NoPrev |-> m[f]]

\* `moved`: the touched blocks whose position differs from the current one;
\* `prev`: the pass before this one
NoMove == [type |-> "none", ids |-> {}, action_idx |-> 0, delta_cost |-> 0,
           reward |-> 0, accepted |-> FALSE, evaluated |-> FALSE, moved |-> {},
           draw |-> FALSE, prev |-> NoPrev]

\* get_state on the temperature the coming cooling step will leave
get_stateCooled(current_temp, initial_temp) ==
    IF current_temp.n * cfg.alpha.n * 100 > 66 * initial_temp * current_temp.d * cfg.alpha.d
    THEN 0
    ELSE IF current_temp.n * cfg.alpha.n * 100
                > 33 * initial_temp * current_temp.d * cfg.alpha.d
    THEN 1
    ELSE 2

\* RLAgent.get_state: ratio = current_temp / initial_temp against 0.66 and 0.33
get_state(current_temp, initial_temp) ==
    IF current_temp.n * 100 > 66 * initial_temp * current_temp.d THEN 0
    ELSE IF current_temp.n * 100 > 33 * initial_temp * current_temp.d THEN 1
    ELSE 2

RowMax(row) == SetMax({row[a] : a \in 1..3})

\* np.argmax: the first index of the maximum (0-based)
ArgMax(row) == (CHOOSE a \in 1..3 : row[a] = RowMax(row) /\ \A b \in 1..(a - 1) : row[b] < row[a]) - 1

\* RLAgent.choose_action: the action indices the call can return.  With
\* rng.random() < epsilon any index (rng.choice); else any index when the row is
\* constant, and argmax otherwise.
choose_action(state) ==
    LET values == q_table[state + 1]
        explore == 0..2
        exploit == IF \A a \in 1..3 : values[a] = values[1] THEN 0..2 ELSE {ArgMax(values)}
    IN  explore \cup exploit

\* reward = max(-10, min(10, -delta_cost / 100)), in 10^-6
RewardOf(delta_cost) ==
    IF delta_cost >= 1000 * CostScale THEN -10 * Micro
    ELSE IF delta_cost <= -1000 * CostScale THEN 10 * Micro
    ELSE (-delta_cost) * (Micro \div (100 * CostScale))

learnRow(state, action_idx, reward, next_state) ==
    LET old_value == q_table[state + 1][action_idx + 1]
        next_max == RowMax(q_table[next_state + 1])
        new_value == ((10 - LR10) * old_value
                      + LR10 * (reward + (GAMMA10 * next_max) \div 10)) \div 10
    IN  [q_table EXCEPT ![state + 1] = [a \in 1..3 |-> new_value]]

\* RLAgent.learn: only q_table[state, action_idx] is written
learn(state, action_idx, reward, next_state) ==
    LET old_value == q_table[state + 1][action_idx + 1]
        next_max == RowMax(q_table[next_state + 1])
        new_value == ((10 - LR10) * old_value
                      + LR10 * (reward + (GAMMA10 * next_max) \div 10)) \div 10
    IN  [q_table EXCEPT ![state + 1][action_idx + 1] = new_value]

\* math.exp(-delta_cost / temperature) is 0.0 below exp(-745.13...)
EXP_UNDERFLOW == 745

\* sa_engine.py 195: math.exp(-delta_cost / temperature) with temperature 0.0
\* raises ZeroDivisionError
ExpRaises(delta_cost) == delta_cost > 0 /\ temperature.n = 0

\* sa_engine.py 194-196: rng.random() is called in the else branch, after the
\* exponential
AcceptanceDraw(delta_cost) == delta_cost > 0 /\ ~ExpRaises(delta_cost)

\* the outcomes of the Metropolis test: delta <= 0 accepts; otherwise
\* rng.random() < exp(-delta/T) can fail always and can succeed unless the
\* exponential underflows to 0.0
AcceptChoices(delta_cost) ==
    IF delta_cost <= 0 THEN {TRUE}
    ELSE IF delta_cost * temperature.d > EXP_UNDERFLOW * CostScale * temperature.n
    THEN {FALSE}
    ELSE {TRUE, FALSE}

\* max(0.0, min(v, snap_to_grid(limit - size, PLACEMENT_PITCH)))
Clamp(v, limit, size) == Max2(0, Min2(v, snap_to_grid(limit - size, PLACEMENT_PITCH)))

\* the values snap_to_grid(x + rng.uniform(-scale, scale)) can take, with
\* scale = move_scale * (temperature / initial_temperature) + 1.0; the draw is
\* taken on the 1/Res raster
Displaced(x) ==
    LET reach == ((cfg.move_scale * temperature.n * Res)
                    \div (cfg.initial_temperature * temperature.d)) + Res
    IN  {snap_to_grid(x + u, PLACEMENT_PITCH) : u \in (-reach)..reach}

\* a best update on every accepted move that does not raise the cost
BestImprovesOrEqual(new_cost, old_best) == new_cost <= old_best

\* a best update on every accepted move
BestImprovesAlways(new_cost, old_best) == TRUE

\* sa_engine.py 203: if current_cost < best_cost
BestImproves(new_cost, old_best) == new_cost < old_best

\* sa_engine.py 179-208: evaluate, learn, Metropolis, best update, for the
\* candidate (np, no) built by move `mv` of action index `ai`
Evaluate(np, no, mv, ai) ==
    \E new_cost \in {total_cost(np, no)} :
    \E delta_cost \in {new_cost - current_cost} :
    \E accepted \in AcceptChoices(delta_cost) :
        /\ next_place' = np
        /\ next_orient' = no
        /\ q_table' = learn(state_idx, ai, RewardOf(delta_cost), state_idx)
        /\ move' = [type |-> agent_actions[ai + 1], ids |-> mv, action_idx |-> ai,
                    delta_cost |-> delta_cost, reward |-> RewardOf(delta_cost),
                    accepted |-> accepted, evaluated |-> TRUE,
                    draw |-> AcceptanceDraw(delta_cost),
                    moved |-> {id \in mv : np[id] # current_place[id]},
                    prev |-> Strip(move)]
        /\ IF ExpRaises(delta_cost)
           THEN /\ pc' = "ZeroDivisionError"
                /\ UNCHANGED <<current_place, current_orient, current_cost,
                               best_place, best_orient, best_cost, reject_count, step>>
           ELSE /\ IF accepted
                   THEN /\ current_place' = np
                        /\ current_orient' = no
                        /\ current_cost' = new_cost
                        /\ IF BestImproves(new_cost, best_cost)
                           THEN /\ best_place' = np
                                /\ best_orient' = no
                                /\ best_cost' = new_cost
                           ELSE UNCHANGED <<best_place, best_orient, best_cost>>
                        /\ UNCHANGED reject_count
                   ELSE /\ reject_count' = reject_count + 1
                        /\ UNCHANGED <<current_place, current_orient, current_cost,
                                       best_place, best_orient, best_cost>>
                /\ step' = step + 1
                /\ UNCHANGED pc
        /\ UNCHANGED <<ivars, bvars, cfg, cost_history, temperature,
                       rejection_rate, iteration_counter, state_idx, callback_log>>

InChain == pc = "chain" /\ step < cfg.k_steps

\* sa_engine.py 131-149
StepDisplace ==
    /\ InChain
    /\ 0 \in choose_action(state_idx)
    /\ \E block_id \in BlockIds :
       \E d \in {get_effective_dims(BlockOf(block_id), current_orient)} :
       \E safe_x \in {Clamp(sx, die.width, d[1]) : sx \in Displaced(current_place[block_id][1])} :
       \E safe_y \in {Clamp(sy, die.height, d[2]) : sy \in Displaced(current_place[block_id][2])} :
       \E np \in {[current_place EXCEPT ![block_id] = <<safe_x, safe_y>>]} :
           Evaluate(np, current_orient, {block_id}, 0)

\* max(0.0, min(.)) on both coordinates of block `bid` at `pos`, its effective
\* dimensions read from `orientations`
ClampBlock(bid, pos, orientations) ==
    LET dm == get_effective_dims(BlockOf(bid), orientations)
    IN  <<Clamp(pos[1], die.width, dm[1]), Clamp(pos[2], die.height, dm[2])>>

\* sa_engine.py 151-164; with fewer than two blocks the pass ends at `continue`,
\* the candidate being the copy of the current state (sa_engine.py 123-124)
StepSwap ==
    /\ InChain
    /\ 1 \in choose_action(state_idx)
    /\ IF Cardinality(BlockIds) < 2
       THEN /\ step' = step + 1
            /\ move' = [NoMove EXCEPT !.type = "swap", !.action_idx = 1,
                                      !.prev = Strip(move)]
            /\ next_place' = current_place
            /\ next_orient' = current_orient
            /\ UNCHANGED <<ivars, bvars, cfg, pc, current_place, current_orient,
                           current_cost, best_place, best_orient, best_cost,
                           cost_history, temperature, rejection_rate,
                           iteration_counter, reject_count, state_idx, q_table,
                           callback_log>>
       ELSE \E b1 \in BlockIds : \E b2 \in BlockIds \ {b1} :
            \E np \in {[current_place EXCEPT
                          ![b1] = ClampBlock(b1, current_place[b2], current_orient),
                          ![b2] = ClampBlock(b2, current_place[b1], current_orient)]} :
                Evaluate(np, current_orient, {b1, b2}, 1)

\* a rotation that flips the flag of every block
RotatedAll(orientations, block_id) ==
    [id \in DOMAIN orientations |-> ~orientations[id]]

\* a rotation that sets the flag instead of flipping it
RotatedSet(orientations, block_id) == [orientations EXCEPT ![block_id] = TRUE]

\* sa_engine.py 168: next_orient[block_id] = not current_orient[block_id]
Rotated(orientations, block_id) ==
    [orientations EXCEPT ![block_id] = ~orientations[block_id]]

\* sa_engine.py 166-177
StepRotate ==
    /\ InChain
    /\ 2 \in choose_action(state_idx)
    /\ \E block_id \in BlockIds :
       \E no \in {Rotated(current_orient, block_id)} :
       \E np \in {[current_place EXCEPT
                     ![block_id] = ClampBlock(block_id, current_place[block_id], no)]} :
           Evaluate(np, no, {block_id}, 2)

\* sa_engine.py 93-96: for bid in current_place, with current_place = None
SA_Raise ==
    /\ entry = "simulated_annealing"
    /\ pc = "baseline"
    /\ bret.kind = "None"
    /\ pc' = "TypeError"
    /\ UNCHANGED <<ivars, bvars, cfg, current_place, current_orient, current_cost,
                   best_place, best_orient, best_cost, cost_history, temperature,
                   rejection_rate, iteration_counter, reject_count, step,
                   state_idx, q_table, next_place, next_orient, move, callback_log>>

\* sa_engine.py 93-113: snap the baseline, all orientations False, the first
\* cost, best := current
SA_Init ==
    /\ entry = "simulated_annealing"
    /\ pc = "baseline"
    /\ bret.kind = "placement"
    /\ LET snapped == [bid \in DOMAIN bret.value |->
                          <<snap_to_grid(bret.value[bid][1], PLACEMENT_PITCH),
                            snap_to_grid(bret.value[bid][2], PLACEMENT_PITCH)>>]
           orient == [id \in BlockIds |-> FALSE]
           cost == total_cost(snapped, orient)
       IN  /\ current_place' = snapped
           /\ current_orient' = orient
           /\ current_cost' = cost
           /\ best_place' = snapped
           /\ best_orient' = orient
           /\ best_cost' = cost
           /\ cost_history' = <<cost>>
    /\ temperature' = Frac(cfg.initial_temperature, 1)
    /\ rejection_rate' = Frac(0, 1)
    /\ iteration_counter' = 0
    /\ pc' = "while"
    /\ UNCHANGED <<ivars, bvars, cfg, reject_count, step, state_idx, q_table,
                   next_place, next_orient, move, callback_log>>

\* sa_engine.py 116: (rejection_rate < 0.99) and (temperature > final_temperature)
LoopCondition ==
    /\ rejection_rate.n * 100 < 99 * rejection_rate.d
    /\ temperature.n > cfg.final_temperature * temperature.d

\* sa_engine.py 116-119: the loop is entered
EnterChain ==
    /\ pc = "while"
    /\ LoopCondition
    /\ iteration_counter < MaxOuter
    /\ reject_count' = 0
    /\ state_idx' = get_state(temperature, cfg.initial_temperature)
    /\ step' = 0
    /\ pc' = "chain"
    /\ UNCHANGED <<ivars, bvars, cfg, current_place, current_orient, current_cost,
                   best_place, best_orient, best_cost, cost_history, temperature,
                   rejection_rate, iteration_counter, q_table, next_place,
                   next_orient, move, callback_log>>

\* sa_engine.py 116, 221: the loop is left, the best triple returned
SA_Return ==
    /\ pc = "while"
    /\ ~LoopCondition
    /\ pc' = "returned"
    /\ UNCHANGED <<ivars, bvars, cfg, current_place, current_orient, current_cost,
                   best_place, best_orient, best_cost, cost_history, temperature,
                   rejection_rate, iteration_counter, reject_count, step,
                   state_idx, q_table, next_place, next_orient, move, callback_log>>

callback_argsRate(iteration, temp, cost, rate) ==
    [iteration |-> iteration, temperature |-> temp, cost |-> cost,
     acceptance |-> rate]

\* sa_engine.py 217: callback(iteration_counter, temperature, current_cost,
\* 1.0 - rejection_rate)
callback_args(iteration, temp, cost, rate) ==
    [iteration |-> iteration, temperature |-> temp, cost |-> cost,
     acceptance |-> Frac(rate.d - rate.n, rate.d)]

\* sa_engine.py 210-219
UpdateStats ==
    /\ pc = "chain"
    /\ step = cfg.k_steps
    /\ rejection_rate' = Frac(reject_count, cfg.k_steps)
    /\ cost_history' = Append(cost_history, current_cost)
    /\ temperature' = Frac(temperature.n * cfg.alpha.n, temperature.d * cfg.alpha.d)
    /\ iteration_counter' = iteration_counter + 1
    /\ callback_log' = Append(callback_log,
           callback_args(iteration_counter', temperature', current_cost,
                         rejection_rate'))
    /\ pc' = IF Len(cost_history') > HISTORY_CAP THEN "returned" ELSE "while"
    /\ UNCHANGED <<ivars, bvars, cfg, current_place, current_orient, current_cost,
                   best_place, best_orient, best_cost, reject_count, step,
                   state_idx, q_table, next_place, next_orient, move>>

\* --------------------------------------------------------------- inputs
Blk(id, w, h, p) == [id |-> id, width |-> w, height |-> h, power |-> p]

Net(ids, weight) == [blocks |-> ids, weight |-> weight]

\* the longest block list given to a direct call of baseline_place
MaxBlocks == 4

\* block shapes (width, height in 1/Res; power) for direct calls of baseline_place
BlockTypes ==
    { [width |-> 2, height |-> 2, power |-> 1],     \* 1 x 1, powered
      [width |-> 3, height |-> 2, power |-> 0],     \* 1.5 x 1
      [width |-> 2, height |-> 3, power |-> 0],     \* 1 x 1.5
      [width |-> 6, height |-> 4, power |-> 0] }    \* 3 x 2

DieChoices == { [width |-> 8, height |-> 4], [width |-> 6, height |-> 6] }

NetChoices == { <<>>, <<Net(<<1, 2>>, 3)>> }

BlockLists ==
    UNION { { [i \in 1..n |-> Blk(i, f[i].width, f[i].height, f[i].power)] :
                f \in [1..n -> BlockTypes] } : n \in 1..MaxBlocks }

\* a configuration that cools below final_temperature after one chain of k moves
DefaultCfg(k) ==
    [initial_temperature |-> 1000, final_temperature |-> 600,
     alpha |-> [n |-> 1, d |-> 2], k_steps |-> k, move_scale |-> 20]

\* a configuration that runs two chains of one move each (1000, 500, stop at 250)
TwoChainCfg == [DefaultCfg(1) EXCEPT !.final_temperature = 300]

\* two 10 x 10 blocks of power 50, no nets, on a 100 x 100 die
ScenarioS4 ==
    [blocks |-> <<Blk(1, 10 * Res, 10 * Res, 50), Blk(2, 10 * Res, 10 * Res, 50)>>,
     nets |-> <<>>, die |-> [width |-> 100 * Res, height |-> 100 * Res]]

\* one 10 x 10 block of power 25, no nets, on a 100 x 100 die
ScenarioS5 ==
    [blocks |-> <<Blk(1, 10 * Res, 10 * Res, 25)>>,
     nets |-> <<>>, die |-> [width |-> 100 * Res, height |-> 100 * Res]]

\* blocks 1 x 3, 2.5 x 1, 1.5 x 1 and 2 x 1.5 on a 3 x 4 die: the last block of
\* the order has no legal smart candidate and a free raster position
ScenarioFallback ==
    [blocks |-> <<Blk(1, 2, 6, 1), Blk(2, 5, 2, 0), Blk(3, 3, 2, 1), Blk(4, 4, 3, 0)>>,
     nets |-> <<>>, die |-> [width |-> 6, height |-> 8]]

\* three 60 x 60 blocks, no nets, on a 100 x 100 die
ScenarioS3 ==
    [blocks |-> <<Blk(1, 60 * Res, 60 * Res, 0), Blk(2, 60 * Res, 60 * Res, 0),
                  Blk(3, 60 * Res, 60 * Res, 0)>>,
     nets |-> <<>>, die |-> [width |-> 100 * Res, height |-> 100 * Res]]

\* the calls of simulated_annealing explored: blocks, nets, die
Scenarios ==
    { ScenarioS4, ScenarioS5,
      \* two connected blocks on a 3 x 3 die
      [blocks |-> <<Blk(1, 4, 2, 0), Blk(2, 2, 2, 0)>>,
       nets |-> <<Net(<<1, 2>>, 1)>>, die |-> [width |-> 6, height |-> 6]],
      \* a 1 x 2.5 and a 1 x 1 block on a 1 x 4 die
      [blocks |-> <<Blk(1, 2, 5, 0), Blk(2, 2, 2, 0)>>,
       nets |-> <<>>, die |-> [width |-> 2, height |-> 8]],
      \* a 3 x 1 and a 1 x 1 block on a 3 x 2 die, joined by a heavy net
      [blocks |-> <<Blk(1, 6, 2, 0), Blk(2, 2, 2, 0)>>,
       nets |-> <<Net(<<1, 2>>, 30000)>>, die |-> [width |-> 6, height |-> 4]],
      \* a 2 x 2 and a 1 x 1 block on a 2 x 2 die: the baseline fails
      [blocks |-> <<Blk(1, 4, 4, 0), Blk(2, 2, 2, 0)>>,
       nets |-> <<>>, die |-> [width |-> 4, height |-> 4]],
      \* one powered 1.5 x 1 block on a 2 x 2 die
      [blocks |-> <<Blk(1, 3, 2, 1)>>,
       nets |-> <<>>, die |-> [width |-> 4, height |-> 4]],
      \* a 2 x 1.5 and a 1 x 1.5 block on a 2 x 3 die
      [blocks |-> <<Blk(1, 4, 3, 0), Blk(2, 2, 3, 0)>>,
       nets |-> <<>>, die |-> [width |-> 4, height |-> 6]],
      \* a 2 x 1 and a 1 x 2 block, both of power 10, on a 3 x 3 die
      [blocks |-> <<Blk(1, 4, 2, 10), Blk(2, 2, 4, 10)>>,
       nets |-> <<>>, die |-> [width |-> 6, height |-> 6]],
      \* one powered 4 x 1 block on a 4 x 1 die
      [blocks |-> <<Blk(1, 8, 2, 1)>>,
       nets |-> <<>>, die |-> [width |-> 8, height |-> 2]] }

\* a configuration that runs two chains of one move each (1000, 250, stop at 62.5)
FastCoolCfg == [DefaultCfg(1) EXCEPT !.alpha = [n |-> 1, d |-> 4],
                                     !.final_temperature = 200]

ValidConfigs == { DefaultCfg(k) : k \in 1..MaxK } \cup {TwoChainCfg}

\* the configurations run on the 100 x 100 die: move_scale = 1.0
LocalConfigs == { [DefaultCfg(k) EXCEPT !.move_scale = 1] : k \in 1..MaxK }

\* alpha >= 1, alpha <= 0, final_temperature <= 0, both of the last two
InvalidConfigs ==
    { [DefaultCfg(1) EXCEPT !.alpha = [n |-> 3, d |-> 2]],
      [DefaultCfg(1) EXCEPT !.alpha = [n |-> 0, d |-> 1]],
      [DefaultCfg(1) EXCEPT !.final_temperature = 0],
      [DefaultCfg(1) EXCEPT !.alpha = [n |-> 0, d |-> 1], !.final_temperature = -1] }

PlainScenario == CHOOSE sc \in Scenarios : Len(sc.nets) = 1 /\ sc.nets[1].weight = 1

ZeroQ == [s \in 1..3 |-> [a \in 1..3 |-> 0]]

IdleSA ==
    /\ current_place = <<>> /\ current_orient = <<>> /\ current_cost = 0
    /\ best_place = <<>> /\ best_orient = <<>> /\ best_cost = 0
    /\ cost_history = <<>>
    /\ temperature = Frac(0, 1) /\ rejection_rate = Frac(0, 1)
    /\ iteration_counter = 0 /\ reject_count = 0 /\ step = 0 /\ state_idx = 0
    /\ q_table = ZeroQ
    /\ next_place = <<>> /\ next_orient = <<>>
    /\ move = NoMove
    /\ callback_log = <<>>

\* baseline.py 45-108: the scores, the sorted list, nothing placed
IdleBaseline ==
    /\ sorted_blocks = SortedBlocks
    /\ placement = <<>> /\ occupied_spaces = <<>> /\ bi = 0
    /\ used_fallback = {} /\ bret = Pending

\* no direct call of snap_to_grid
NoSnap == [val |-> 0, pitch |-> PLACEMENT_PITCH, done |-> FALSE, result |-> 0]

\* the arguments of direct calls of snap_to_grid are val in -MaxSnapVal..MaxSnapVal
\* (in 1/Res) and a pitch of 0.5, 1.0 or 2.0
MaxSnapVal == 20

SnapPitches == {1, PLACEMENT_PITCH, 2 * PLACEMENT_PITCH}

\* snap_to_grid(val, pitch) returns
SnapReturn ==
    /\ entry = "snap_to_grid"
    /\ ~snap_call.done
    /\ snap_call' = [snap_call EXCEPT !.done = TRUE,
                         !.result = snap_to_grid(snap_call.val, snap_call.pitch)]
    /\ UNCHANGED <<blocks, nets, die, entry, bvars, savars>>

\* simulated_annealing(blocks, nets, die, ...) has been called
Init ==
    /\ snap_call = NoSnap
    /\ \E sc \in Scenarios :
        /\ blocks = sc.blocks /\ nets = sc.nets /\ die = sc.die
        /\ cfg \in IF sc = PlainScenario
                   THEN ValidConfigs \cup {FastCoolCfg} \cup InvalidConfigs
                   ELSE IF sc \in {ScenarioS4, ScenarioS5} THEN LocalConfigs
                   ELSE ValidConfigs
    /\ entry = "simulated_annealing"
    /\ pc = "baseline"
    /\ IdleBaseline
    /\ IdleSA

\* baseline_place(blocks, die, nets) has been called
InitBaseline ==
    /\ snap_call = NoSnap
    /\ \/ /\ blocks \in BlockLists
          /\ nets \in NetChoices
          /\ die \in DieChoices
       \/ \E sc \in {ScenarioS3, ScenarioFallback} :
              blocks = sc.blocks /\ nets = sc.nets /\ die = sc.die
    /\ entry = "baseline_place"
    /\ cfg = DefaultCfg(1)
    /\ pc = "idle"
    /\ IdleBaseline
    /\ IdleSA

Next ==
    \/ BaselineStep
    \/ BaselineReturn
    \/ SA_Raise
    \/ SA_Init
    \/ EnterChain
    \/ StepDisplace
    \/ StepSwap
    \/ StepRotate
    \/ UpdateStats
    \/ SA_Return

NextBaseline ==
    \/ BaselineStep
    \/ BaselineReturn

\* snap_to_grid(val, pitch) has been called
InitSnap ==
    /\ \E v \in (-MaxSnapVal)..MaxSnapVal : \E p \in SnapPitches :
           snap_call = [val |-> v, pitch |-> p, done |-> FALSE, result |-> 0]
    /\ blocks = <<>> /\ nets = <<>> /\ die = [width |-> 0, height |-> 0]
    /\ entry = "snap_to_grid"
    /\ cfg = DefaultCfg(1)
    /\ pc = "idle"
    /\ IdleBaseline
    /\ IdleSA

NextSnap == SnapReturn

Spec == Init /\ [][Next]_vars

SpecSnap == InitSnap /\ [][NextSnap]_vars

SpecBaseline == InitBaseline /\ [][NextBaseline]_vars

\* ========================================================== properties
\* strict AABB overlap of two rectangles given as <<x, y, w, h>>
RectsOverlap(r, q) ==
    /\ r[1] < q[1] + q[3] /\ r[1] + r[3] > q[1]
    /\ r[2] < q[2] + q[4] /\ r[2] + r[4] > q[2]

\* the rectangle <<x, y, w, h>> lies inside the die
RectInDie(r) ==
    /\ 0 <= r[1] /\ 0 <= r[2]
    /\ r[1] + r[3] <= die.width /\ r[2] + r[4] <= die.height

\* the rectangles of a baseline placement: positions with the blocks' own sizes
BaselineRects(pl) ==
    [id \in DOMAIN pl |-> <<pl[id][1], pl[id][2], BlockOf(id).width, BlockOf(id).height>>]

LegalRects(rects) ==
    /\ \A a \in DOMAIN rects : RectInDie(rects[a])
    /\ \A a \in DOMAIN rects : \A b \in DOMAIN rects :
          a # b => ~RectsOverlap(rects[a], rects[b])

\* C1: after every commit of the baseline loop, and in the placement that
\* baseline_place returns, no two placed rectangles strictly overlap and every
\* rectangle is inside the die, whether the spot was a smart candidate or came
\* from the fallback raster scan.
C1_BaselineLegal ==
    /\ LegalRects([k \in 1..Len(occupied_spaces) |->
            <<occupied_spaces[k].x, occupied_spaces[k].y,
              occupied_spaces[k].w, occupied_spaces[k].h>>])
    /\ LegalRects(BaselineRects(placement))
    /\ bret.kind = "placement" => LegalRects(BaselineRects(bret.value))

\* a placement is returned in which one block got its spot from the fallback
\* scan, another from a smart candidate, and two rectangles touch along an edge
C1_Witness ==
    /\ bret.kind = "placement"
    /\ used_fallback # {}
    /\ used_fallback # BlockIds
    /\ \E a \in DOMAIN bret.value : \E b \in DOMAIN bret.value :
          /\ a # b
          /\ BaselineRects(bret.value)[a][1] + BaselineRects(bret.value)[a][3]
                = BaselineRects(bret.value)[b][1]

\* C2: baseline_place is all-or-nothing: it returns None or a mapping with a
\* position for every input block, never a mapping over part of the blocks;
\* a returned None carries none of the blocks committed before the failure.
C2_AllOrNothing ==
    /\ bret.kind = "placement" => DOMAIN bret.value = BlockIds
    /\ bret.kind = "None" => bret.value = <<>>
    /\ bret.kind \in {"pending", "placement", "None"}

\* None is returned after at least one block had been committed
C2_Witness ==
    /\ bret.kind = "None"
    /\ bi >= 1
    /\ placement # <<>>

\* the rectangles of an annealing state: positions with effective dimensions
EffRects(pl, orientations) ==
    [id \in DOMAIN pl |->
        <<pl[id][1], pl[id][2],
          get_effective_dims(BlockOf(id), orientations)[1],
          get_effective_dims(BlockOf(id), orientations)[2]>>]

NoOverlap(rects) ==
    \A a \in DOMAIN rects : \A b \in DOMAIN rects :
        a # b => ~RectsOverlap(rects[a], rects[b])

\* simulated_annealing is past its initialisation
Annealing == pc \in {"while", "chain", "returned"}

\* C3: best_cost starts at the cost of the snapped baseline state, never
\* increases from one step of the run to the next, and so the returned cost is
\* never larger than the starting cost, whatever the moves and acceptance draws.
C3_MonotoneBest ==
    [][ /\ (pc = "baseline" /\ pc' = "while") =>
              /\ best_cost' = current_cost'
              /\ best_cost' = cost_history'[1]
              /\ best_cost' = total_cost(best_place', best_orient')
        /\ Annealing => best_cost' <= best_cost
        /\ pc' = "returned" => best_cost' <= cost_history'[1] ]_vars

\* a run returns a best cost below its starting cost while the current state
\* has been moved uphill, above the best
C3_Witness ==
    /\ pc = "returned"
    /\ best_cost < cost_history[1]
    /\ current_cost > best_cost

\* C4: in the placement simulated_annealing returns, read with the returned
\* orientations, every block lies fully inside the die.
C4_ReturnedInsideDie ==
    pc = "returned" =>
        \A id \in DOMAIN best_place : RectInDie(EffRects(best_place, best_orient)[id])

\* C5: after every displace, swap or rotate move, each block the move touched
\* lies inside the die in the candidate state, with its effective dimensions
\* in that candidate state.
C5_MoveClamped ==
    move.evaluated =>
        \A id \in move.ids : RectInDie(EffRects(next_place, next_orient)[id])

OnGrid(pl) ==
    \A id \in DOMAIN pl :
        pl[id][1] % PLACEMENT_PITCH = 0 /\ pl[id][2] % PLACEMENT_PITCH = 0

\* C6: every coordinate of every current, candidate and best placement of the
\* SA driver, and of the placement it returns, is an integer multiple of
\* PLACEMENT_PITCH.
C6_OnGrid ==
    /\ OnGrid(current_place)
    /\ OnGrid(next_place)
    /\ OnGrid(best_place)
    /\ Annealing => DOMAIN current_place = BlockIds /\ DOMAIN best_place = BlockIds

\* the baseline handed over a coordinate off the grid, and the run has returned
\* a best placement that a move produced from a position pushed back by the clamp
C6_Witness ==
    /\ pc = "returned"
    /\ ~OnGrid(bret.value)
    /\ \E id \in BlockIds :
          best_place[id] # <<snap_to_grid(bret.value[id][1], PLACEMENT_PITCH),
                             snap_to_grid(bret.value[id][2], PLACEMENT_PITCH)>>

\* C7: every proposed move is validated, so that the candidate state has no
\* pair of strictly overlapping blocks and no boundary violation; no current
\* state and no returned best state holds two overlapping blocks.
C7_MovesValidated ==
    /\ move.evaluated => LegalRects(EffRects(next_place, next_orient))
    /\ NoOverlap(EffRects(current_place, current_orient))
    /\ pc = "returned" => NoOverlap(EffRects(best_place, best_orient))

\* C8: when baseline_place returns None, simulated_annealing hands that None
\* to its caller as a normal result: no error is raised, no move is made, no
\* cost is evaluated and no callback is called.
C8_NonePropagated ==
    (entry = "simulated_annealing" /\ bret.kind = "None") =>
        /\ pc # "TypeError"
        /\ cost_history = <<>>
        /\ callback_log = <<>>
        /\ ~move.evaluated

\* alpha <= 0, alpha >= 1 or final_temperature <= 0
InvalidConfig(c) ==
    \/ c.alpha.n <= 0
    \/ c.alpha.n >= c.alpha.d
    \/ c.final_temperature <= 0

\* C9: a call with an out-of-range configuration ends before the baseline is
\* computed or any move is generated; the annealing loop never runs with it.
C9_InvalidConfigRejected ==
    (entry = "simulated_annealing" /\ InvalidConfig(cfg)) =>
        /\ bi = 0
        /\ bret.kind = "pending"
        /\ ~Annealing
        /\ ~move.evaluated

\* the last two passes of the inner loop were accepted rotations of one block
RotatedTwice ==
    /\ move.evaluated /\ move.type = "rotate" /\ move.accepted
    /\ move.prev.evaluated /\ move.prev.type = "rotate" /\ move.prev.accepted
    /\ move.prev.ids = move.ids

\* C11 as stated: two accepted rotations of the same block in a row bring the
\* cost back to what it was before the first of them.
C11_RotateTwiceSameCost ==
    RotatedTwice => move.delta_cost = -move.prev.delta_cost

\* C11: two accepted rotations of the same block in a row bring the cost back
\* to what it was before the first, provided the clamp of neither rotation
\* moved the block.
C11_RotateTwiceUnmoved ==
    (RotatedTwice /\ move.moved = {} /\ move.prev.moved = {}) =>
        /\ move.delta_cost = -move.prev.delta_cost
        /\ current_cost = total_cost(current_place, current_orient)

\* a block was rotated twice in a row, not moved by the clamp, and the first
\* rotation changed the cost
C11_Witness ==
    /\ RotatedTwice
    /\ move.moved = {} /\ move.prev.moved = {}
    /\ move.prev.delta_cost # 0

\* C12: simulated_annealing ends by returning, for every configuration with
\* k_steps >= 1 and initial_temperature > 0: it never ends in an error; the
\* loop is left only when the temperature is at or below final_temperature,
\* the last rejection rate is at least 0.99 or the history is longer than
\* HISTORY_CAP; the history holds 1 + (outer iterations) entries, at most
\* HISTORY_CAP + 1.
C12_Terminates ==
    (entry = "simulated_annealing" /\ bret.kind = "placement"
        /\ cfg.k_steps >= 1 /\ cfg.initial_temperature > 0) =>
        /\ pc \in {"baseline", "while", "chain", "returned"}
        /\ Annealing => /\ Len(cost_history) = 1 + iteration_counter
                        /\ Len(cost_history) <= HISTORY_CAP + 1
        /\ pc = "returned" => (~LoopCondition \/ Len(cost_history) > HISTORY_CAP)

\* C13: the callback is called exactly once per completed outer iteration and
\* never inside a chain, with iteration numbers 1, 2, 3, ...; a call comes
\* after the history append and the cooling, so its temperature is the cooled
\* one, its cost is the last history entry, and its fourth argument is
\* 1 - rejects/k of the chain just finished.
C13_CallbackPerIteration ==
    [][ /\ callback_log' # callback_log =>
            /\ pc = "chain" /\ step = cfg.k_steps
            /\ Len(callback_log') = Len(callback_log) + 1
            /\ SubSeq(callback_log', 1, Len(callback_log)) = callback_log
            /\ Len(cost_history') = Len(cost_history) + 1
            /\ LET call == callback_log'[Len(callback_log')] IN
                /\ call.iteration = Len(callback_log')
                /\ call.iteration = iteration_counter'
                /\ call.temperature = temperature'
                /\ call.temperature =
                       Frac(temperature.n * cfg.alpha.n, temperature.d * cfg.alpha.d)
                /\ call.cost = cost_history'[Len(cost_history')]
                /\ call.acceptance.n * cfg.k_steps =
                       (cfg.k_steps - reject_count) * call.acceptance.d
        /\ (iteration_counter' # iteration_counter \/ cost_history' # cost_history
                \/ temperature' # temperature) =>
            (pc = "baseline" \/ callback_log' # callback_log) ]_vars

C13_Witness ==
    /\ Len(callback_log) = 2
    /\ callback_log[1].acceptance = [n |-> 1, d |-> 1]
    /\ callback_log[2].acceptance = [n |-> 0, d |-> 1]
    /\ pc = "returned"

\* a step of the chain that evaluates a candidate (sa_engine.py 179-208); the
\* swap move with fewer than two blocks evaluates nothing
EvaluatedStep ==
    /\ InChain
    /\ move'.evaluated
    /\ step' = step + 1 \/ pc' = "ZeroDivisionError"

\* C14: every step of the chain that evaluates a candidate performs one
\* learn(state, action, reward, state), before the acceptance decision and
\* whether the move is accepted or rejected; only Q[state, action] changes,
\* and the reward is -delta_cost/100 clipped to [-10, 10].
C14_LearnEveryStep ==
    [][ /\ EvaluatedStep =>
            /\ move'.delta_cost = total_cost(next_place', next_orient') - current_cost
            /\ move'.reward >= -10 * Micro /\ move'.reward <= 10 * Micro
            /\ (Abs(move'.delta_cost) < 1000 * CostScale) =>
                   move'.reward * CostScale = (-move'.delta_cost) * (Micro \div 100)
            /\ (move'.delta_cost >= 1000 * CostScale) => move'.reward = -10 * Micro
            /\ (move'.delta_cost <= -1000 * CostScale) => move'.reward = 10 * Micro
            /\ \A s \in 1..3 : \A a \in 1..3 :
                   IF s = state_idx + 1 /\ a = move'.action_idx + 1
                   THEN q_table'[s][a] =
                            (9 * q_table[s][a]
                             + move'.reward + (9 * RowMax(q_table[s])) \div 10) \div 10
                   ELSE q_table'[s][a] = q_table[s][a]
            /\ state_idx' = state_idx
        /\ (~EvaluatedStep /\ pc # "baseline") => q_table' = q_table ]_vars

\* a rejected move (reward at the lower clip) has been learnt after an
\* accepted one
C14_Witness ==
    /\ move.evaluated /\ ~move.accepted /\ move.reward = -10 * Micro
    /\ move.prev.evaluated /\ move.prev.accepted /\ move.prev.reward > 0
    /\ q_table[state_idx + 1][move.action_idx + 1] < 0

\* the thermal penalty with every victim's centre taken from the victim's own
\* position and own effective dimensions
RECURSIVE OwnCentreSum(_, _, _)
OwnCentreSum(pl, orientations, v) ==
    IF v > Len(blocks) THEN 0
    ELSE LET victim == blocks[v]
             vc == get_center(pl[victim.id][1], pl[victim.id][2], victim, orientations)
         IN  ViolationCost(VictimTempAt(pl, orientations, v, vc))
             + OwnCentreSum(pl, orientations, v + 1)

\* C15: compute_thermal_penalty measures each victim's centre from the
\* victim's own position and own effective dimensions, so the dimensions and
\* orientation of another block, and the order of the block list, do not
\* enter a victim's distances.
C15_ThermalOwnCentre ==
    (Annealing /\ pc = "chain" /\ step > 0) =>
        compute_thermal_penalty(next_place, next_orient)
            = OwnCentreSum(next_place, next_orient, 1)

\* C16: each of the five terms of total_cost (wirelength, overlap, boundary,
\* thermal, centre penalty) is non-negative for every placement and
\* orientation, blocks outside the die included.
C16_TermsNonNegative ==
    (pc = "chain" /\ step > 0) =>
        /\ compute_hpwl_wirelength(next_place, next_orient) >= 0
        /\ compute_overlap_penalty(next_place, next_orient) >= 0
        /\ compute_boundary_penalty(next_place, next_orient) >= 0
        /\ compute_thermal_penalty(next_place, next_orient) >= 0
        /\ compute_center_penalty(next_place, next_orient) >= 0

\* the value returned lies halfway between two multiples of the pitch
SnapTie == snap_call.done /\ 2 * Abs(snap_call.result - snap_call.val) = snap_call.pitch

SnapNearest ==
    snap_call.done =>
        /\ snap_call.result % snap_call.pitch = 0
        /\ 2 * Abs(snap_call.result - snap_call.val) <= snap_call.pitch

\* C17 as stated: snap(v, pitch) is the multiple of pitch nearest to v, a tie
\* going away from zero (snap(0.5) = 1, snap(2.5) = 3, snap(-0.5) = -1).
C17_SnapHalfAway ==
    /\ SnapNearest
    /\ SnapTie => Abs(snap_call.result) > Abs(snap_call.val)

\* C17: snap(v, pitch) is the multiple of pitch nearest to v, a tie going to
\* the even multiple (snap(0.5) = 0, snap(1.5) = 2, snap(2.5) = 2,
\* snap(-0.5) = 0).
C17_SnapHalfEven ==
    /\ SnapNearest
    /\ SnapTie => (snap_call.result \div snap_call.pitch) % 2 = 0

\* snap(2.5, 1.0) has returned 2.0
C17_Witness ==
    /\ SnapTie
    /\ snap_call.val = 5 /\ snap_call.pitch = PLACEMENT_PITCH
    /\ snap_call.result = 2 * PLACEMENT_PITCH

\* simulated_annealing has returned from the call of scenario S4 / S5
ReturnedS4 ==
    /\ blocks = ScenarioS4.blocks /\ nets = ScenarioS4.nets /\ die = ScenarioS4.die
    /\ pc = "returned"

ReturnedS5 ==
    /\ blocks = ScenarioS5.blocks /\ nets = ScenarioS5.nets /\ die = ScenarioS5.die
    /\ pc = "returned"

\* C18 as stated: in scenario S4 the thermal term of the returned state is 0.
C18_S4ThermalZero ==
    ReturnedS4 => compute_thermal_penalty(best_place, best_orient) = 0

\* C18: in scenario S4 (two 10 x 10 blocks of power 50, no nets, 100 x 100
\* die) the thermal term of the returned state is 2 * (10 * 50 - 100)^2 =
\* 320000: no heat is transferred between the blocks, and each block's own
\* temperature 10 * power is above MAX_SAFE_TEMP.
C18_S4ThermalBase ==
    ReturnedS4 =>
        /\ compute_thermal_penalty(best_place, best_orient)
               = 2 * (10 * 50 - MAX_SAFE_TEMP) * (10 * 50 - MAX_SAFE_TEMP) * CostScale
        /\ \A v \in 1..2 :
               VictimTemp(best_place, best_orient, v) = 10 * 50 * Milli

\* a run of S4 that accepted a move away from the state it returns
C18_Witness ==
    /\ ReturnedS4
    /\ current_place # best_place
    /\ compute_thermal_penalty(best_place, best_orient)
           = compute_thermal_penalty(current_place, current_orient)

\* C19 as stated: in scenario S5 the block is returned at a die corner, its
\* centre at distance maxDist from the die centre, and the centre penalty is 0.
C19_S5CenterZero ==
    ReturnedS5 =>
        /\ best_place[1][1] \in {0, die.width - blocks[1].width}
        /\ best_place[1][2] \in {0, die.height - blocks[1].height}
        /\ compute_center_penalty(best_place, best_orient) = 0

\* C19: in scenario S5 (one 10 x 10 block of power 25 on a 100 x 100 die) the
\* block is returned in a corner of the die; its centre is 5 from both walls,
\* at 0.9 * maxDist from the die centre, and the centre penalty is
\* 0.1 * 25 * 2500 = 6250.
C19_S5CenterCorner ==
    ReturnedS5 =>
        /\ best_place[1][1] \in {0, die.width - blocks[1].width}
        /\ best_place[1][2] \in {0, die.height - blocks[1].height}
        /\ compute_center_penalty(best_place, best_orient)
               = ((25 * CENTER_PENALTY_WEIGHT) \div 10) * CostScale

\* a run of S5 that accepted a move away from the corner it returns
C19_Witness ==
    /\ ReturnedS5
    /\ current_place # best_place
    /\ compute_center_penalty(current_place, current_orient)
           > compute_center_penalty(best_place, best_orient)

\* the call is of scenario S2's kind: two blocks of power 0 with integer
\* dimensions, joined by one net
TwoJoinedBlocks ==
    /\ Len(blocks) = 2
    /\ \A i \in 1..2 : /\ blocks[i].power = 0
                       /\ blocks[i].width % Res = 0 /\ blocks[i].height % Res = 0
    /\ Len(nets) = 1
    /\ {nets[1].blocks[k] : k \in 1..Len(nets[1].blocks)} = BlockIds

\* the wirelength of the placement baseline_place returned
BaselineHpwl ==
    compute_hpwl_wirelength(bret.value, [id \in BlockIds |-> FALSE])

\* C20: for two zero-power blocks with integer dimensions joined by one net,
\* on a die where the baseline succeeds, the HPWL of the placement returned by
\* simulated_annealing is at most the HPWL of the baseline placement, whatever
\* the moves and the acceptance draws.
C20_HpwlNotWorse ==
    (TwoJoinedBlocks /\ pc = "returned") =>
        compute_hpwl_wirelength(best_place, best_orient) <= BaselineHpwl

\* a run that returns a placement of smaller wirelength than the baseline's,
\* after accepting a move that raised the wirelength
C20_Witness ==
    /\ TwoJoinedBlocks /\ pc = "returned"
    /\ compute_hpwl_wirelength(best_place, best_orient) < BaselineHpwl
    /\ compute_hpwl_wirelength(current_place, current_orient)
           > compute_hpwl_wirelength(best_place, best_orient)

\* the block the baseline loop is at has no legal smart candidate and no free
\* position on the raster of step 1.0 against the committed rectangles
Stuck ==
    /\ bret.kind = "pending" /\ bi < Len(blocks)
    /\ LET block == sorted_blocks[bi + 1] IN
        /\ \A k \in 1..(4 + 4 * Len(occupied_spaces)) :
               ~IsLegal(raw_candidates(block.width, block.height)[k],
                        block.width, block.height)
        /\ \A i \in 0..(die.width \div Res) : \A j \in 0..(die.height \div Res) :
               (i * Res <= die.width - block.width /\ j * Res <= die.height - block.height)
                   => check_overlap(i * Res, j * Res, block.width, block.height,
                                    occupied_spaces)

CalledS3 ==
    /\ entry = "baseline_place"
    /\ blocks = ScenarioS3.blocks /\ nets = ScenarioS3.nets /\ die = ScenarioS3.die

\* C21: for three 60 x 60 blocks on a 100 x 100 die baseline_place returns
\* None; in general, as soon as the block the loop is at has no legal smart
\* candidate and no free raster position against the rectangles committed so
\* far, the call returns None.
C21_InfeasibleReturnsNone ==
    /\ [](CalledS3 => bret.kind \in {"pending", "None"})
    /\ []((CalledS3 /\ bi >= 1) => (Stuck \/ bret.kind = "None"))
    /\ [][Stuck => (bret'.kind = "None" /\ bi' = bi)]_vars

\* the call with three 60 x 60 blocks has returned None at the second block
C21_Witness == CalledS3 /\ bret.kind = "None" /\ bi = 1

\* 0 < alpha < 1
AlphaInRange == 0 < cfg.alpha.n /\ cfg.alpha.n < cfg.alpha.d

\* the band of temperature / initial_temperature: 0 above 0.66, 1 above 0.33,
\* else 2
Band ==
    IF 50 * temperature.n > 33 * cfg.initial_temperature * temperature.d THEN 0
    ELSE IF 100 * temperature.n > 33 * cfg.initial_temperature * temperature.d THEN 1
    ELSE 2

\* C22: the agent state of every move of one chain is the band of T/T0 of the
\* temperature before that iteration's cooling step; for 0 < alpha < 1 the
\* first chain runs in state 0 and the state never moves back to a
\* lower-numbered band from one outer iteration to the next.
C22_StatePerChain ==
    /\ [](pc = "chain" => state_idx = Band)
    /\ []((pc = "chain" /\ iteration_counter = 0 /\ AlphaInRange) => state_idx = 0)
    /\ [][pc = "chain" => state_idx' = state_idx]_vars
    /\ [][(Annealing /\ AlphaInRange) => state_idx' >= state_idx]_vars

\* the second chain of a run runs in state 2, after a first chain in state 0
C22_Witness ==
    /\ pc = "chain" /\ AlphaInRange
    /\ iteration_counter = 1 /\ state_idx = 2

\* the baseline loop is at a block, at index bi + 1 of sorted_blocks
AtBlock == bret.kind = "pending" /\ bi < Len(blocks)

\* the legal smart candidates of the block the loop is at
LegalCandidates ==
    LET block == sorted_blocks[bi + 1]
        raw == raw_candidates(block.width, block.height)
    IN  {raw[k] : k \in {j \in 1..Len(raw) : IsLegal(raw[j], block.width, block.height)}}

\* C23: whenever at least one smart candidate of a block is legal, the
\* committed position is one of the legal candidates, its total score is
\* minimal over all legal candidates, and among the legal candidates of that
\* minimal score it has the smallest x + y.
C23_SelectionMinimal ==
    [][ (AtBlock /\ LegalCandidates # {}) =>
            LET block == sorted_blocks[bi + 1] IN
            /\ bi' = bi + 1
            /\ block.id \in DOMAIN placement'
            /\ \E pos \in {placement'[block.id]} :
               \E best \in {total_score(block, pos)} :
                /\ pos \in LegalCandidates
                /\ \A c \in LegalCandidates :
                       \E sc \in {total_score(block, c)} :
                           /\ ~ScoreLess(sc, best)
                           /\ ScoreEq(sc, best) => c[1] + c[2] >= pos[1] + pos[2] ]_vars

\* the second block has been committed at a smart candidate that ties (no nets,
\* no power, both on a wall) with the corner (0, die.height - h), which is
\* legal and earlier in the list, and has the smaller x + y
C23_Witness ==
    /\ bi = 2 /\ nets = <<>>
    /\ occupied_spaces[1].power = 0 /\ occupied_spaces[2].power = 0
    /\ occupied_spaces[2].id \notin used_fallback
    /\ LET o == occupied_spaces[2]
           first == occupied_spaces[1]
       IN  /\ o.h <= die.height
           /\ ~RectsOverlap(<<0, die.height - o.h, o.w, o.h>>,
                            <<first.x, first.y, first.w, first.h>>)
           /\ o.x + o.y < die.height - o.h
           /\ o.x > 0

\* the positions of the raster of step 1.0 at which the block the loop is at
\* lies inside the die and overlaps no committed rectangle
FreeRaster ==
    LET block == sorted_blocks[bi + 1] IN
    {p \in {<<i * Res, j * Res>> : i \in 0..(die.width \div Res),
                                   j \in 0..(die.height \div Res)} :
        /\ p[1] <= die.width - block.width
        /\ p[2] <= die.height - block.height
        /\ ~check_overlap(p[1], p[2], block.width, block.height, occupied_spaces)}

\* C24: the fallback raster scan is used for a block only when none of its
\* smart candidates is legal; it commits the first free position, scanning y
\* from 0 upward in steps of 1 and inside each y scanning x from 0 upward in
\* steps of 1, and the call fails only if no scanned position is free.
C24_FallbackScan ==
    [][ AtBlock =>
            LET block == sorted_blocks[bi + 1] IN
            /\ (LegalCandidates # {}) => (used_fallback' = used_fallback /\ bi' = bi + 1)
            /\ (LegalCandidates = {} /\ FreeRaster # {}) =>
                   /\ bi' = bi + 1
                   /\ used_fallback' = used_fallback \cup {block.id}
                   /\ placement'[block.id] \in FreeRaster
                   /\ \A q \in FreeRaster :
                          \/ placement'[block.id][2] < q[2]
                          \/ /\ placement'[block.id][2] = q[2]
                             /\ placement'[block.id][1] <= q[1]
            /\ (bret'.kind = "None") => (LegalCandidates = {} /\ FreeRaster = {}) ]_vars

\* a block has been committed by the scan at an odd position above the first
\* row
C24_Witness ==
    /\ bi >= 1 /\ bi <= Len(occupied_spaces)
    /\ occupied_spaces[bi].id \in used_fallback
    /\ occupied_spaces[bi].y = 1 * Res /\ occupied_spaces[bi].x = 1 * Res

\* the index in `blocks` of the block of highest inflexibility score, the
\* earliest one among equals
FirstIndex ==
    CHOOSE i \in 1..Len(blocks) :
        /\ \A j \in 1..Len(blocks) :
               get_inflexibility_score(blocks[j]) <= get_inflexibility_score(blocks[i])
        /\ \A j \in 1..(i - 1) :
               get_inflexibility_score(blocks[j]) < get_inflexibility_score(blocks[i])

FirstFits ==
    /\ blocks[FirstIndex].width <= die.width
    /\ blocks[FirstIndex].height <= die.height

\* C25: when the block of highest score (ties by input order) fits inside the
\* die, baseline_place puts it first, at (0, 0): its four corner candidates
\* all score 0 and the tie-break on the smaller x + y selects the origin.
C25_FirstAtOrigin ==
    (entry = "baseline_place" /\ Len(blocks) >= 1) =>
        \E first \in {blocks[FirstIndex]} :
            (first.width <= die.width /\ first.height <= die.height) =>
                /\ sorted_blocks[1] = first
                /\ (bi = 0) =>
                       /\ bret.kind = "pending"
                       /\ \A k \in 1..4 :
                              \E c \in {raw_candidates(first.width, first.height)[k]} :
                                  /\ IsLegal(c, first.width, first.height)
                                  /\ total_score(first, c)
                                         = [int |-> 0, thermal |-> Frac(0, 1)]
                /\ (bi >= 1) =>
                       /\ occupied_spaces[1].id = first.id
                       /\ occupied_spaces[1].x = 0 /\ occupied_spaces[1].y = 0
                       /\ placement[first.id] = <<0, 0>>
                /\ (bret.kind = "placement") => bret.value[first.id] = <<0, 0>>

\* a placement is returned whose first block is not the first of the input
\* and ties on the score with a later block
C25_Witness ==
    /\ entry = "baseline_place" /\ bret.kind = "placement" /\ FirstFits
    /\ FirstIndex > 1
    /\ \E j \in (FirstIndex + 1)..Len(blocks) :
           get_inflexibility_score(blocks[j]) = get_inflexibility_score(blocks[FirstIndex])
    /\ bret.value[blocks[FirstIndex].id] = <<0, 0>>

\* one pass of the inner loop is made: a candidate is built from the current
\* state and, unless the pass ends at `continue`, evaluated
ChainPass == InChain /\ (step' = step + 1 \/ pc' = "ZeroDivisionError")

\* C26: each move changes only what it names.  In the candidate of a displace
\* the position of at most the one chosen block differs from the current
\* state and no orientation differs; in a swap only the positions of the two
\* chosen blocks may differ and no orientation differs; in a rotate exactly
\* the chosen block's orientation is flipped and only its position may
\* differ.  The current state is not modified while the candidate is built.
C26_MoveFrame ==
    [][ ChainPass =>
            LET changed == {id \in BlockIds : next_place'[id] # current_place[id]}
                turned == {id \in BlockIds : next_orient'[id] # current_orient[id]}
            IN  /\ DOMAIN next_place' = BlockIds /\ DOMAIN next_orient' = BlockIds
                /\ move'.ids \subseteq BlockIds
                /\ move'.type \in {"displace", "swap", "rotate"}
                /\ move'.type = "displace" =>
                       /\ Cardinality(move'.ids) = 1
                       /\ changed \subseteq move'.ids /\ turned = {}
                /\ move'.type = "swap" =>
                       /\ Cardinality(move'.ids) = IF move'.evaluated THEN 2 ELSE 0
                       /\ changed \subseteq move'.ids /\ turned = {}
                /\ move'.type = "rotate" =>
                       /\ Cardinality(move'.ids) = 1
                       /\ changed \subseteq move'.ids /\ turned = move'.ids
                /\ \/ /\ current_place' = current_place
                      /\ current_orient' = current_orient
                   \/ /\ move'.accepted
                      /\ current_place' = next_place'
                      /\ current_orient' = next_orient' ]_vars

\* a rotate whose clamp moved the block was rejected in a call with two
\* blocks: the candidate differs from the current state in that block alone
C26_Witness ==
    /\ move.type = "rotate" /\ move.evaluated /\ ~move.accepted
    /\ Cardinality(BlockIds) = 2
    /\ move.moved = move.ids
    /\ \E id \in move.ids :
           /\ next_place[id] # current_place[id]
           /\ next_orient[id] # current_orient[id]
    /\ \A id \in BlockIds \ move.ids :
           /\ next_place[id] = current_place[id]
           /\ next_orient[id] = current_orient[id]

\* C27: a candidate with delta <= 0 always becomes the current state, without
\* an acceptance draw; a candidate with delta > 0 either becomes the current
\* state or is rejected, and a rejected candidate leaves the current
\* placement, orientations and cost and the best triple unchanged and raises
\* the chain's reject count by exactly one.
C27_Metropolis ==
    [][ EvaluatedStep =>
            LET becomes_current ==
                    /\ move'.accepted
                    /\ current_place' = next_place'
                    /\ current_orient' = next_orient'
                    /\ current_cost' = current_cost + move'.delta_cost
                    /\ reject_count' = reject_count
                rejected ==
                    /\ ~move'.accepted
                    /\ current_place' = current_place
                    /\ current_orient' = current_orient
                    /\ current_cost' = current_cost
                    /\ best_place' = best_place
                    /\ best_orient' = best_orient
                    /\ best_cost' = best_cost
                    /\ reject_count' = reject_count + 1
            IN  /\ move'.delta_cost <= 0 => (becomes_current /\ ~move'.draw)
                /\ move'.delta_cost > 0 => (becomes_current \/ rejected) ]_vars

\* the Metropolis step for the passes that do not end in an exception: the
\* draw is taken exactly for delta > 0, and a pass is accepted or rejected
MetropolisWithoutRaise ==
    [][ (EvaluatedStep /\ pc' # "ZeroDivisionError") =>
            /\ move'.delta_cost <= 0 =>
                   /\ move'.accepted /\ ~move'.draw
                   /\ current_place' = next_place' /\ current_orient' = next_orient'
                   /\ current_cost' = current_cost + move'.delta_cost
            /\ move'.delta_cost > 0 =>
                   /\ move'.draw
                   /\ move'.accepted =>
                          /\ current_place' = next_place'
                          /\ current_orient' = next_orient'
                          /\ reject_count' = reject_count
                   /\ ~move'.accepted =>
                          /\ current_place' = current_place
                          /\ current_orient' = current_orient
                          /\ current_cost' = current_cost
                          /\ <<best_place', best_orient', best_cost'>>
                                 = <<best_place, best_orient, best_cost>>
                          /\ reject_count' = reject_count + 1 ]_vars

\* simulated_annealing is past its initialisation
Running == pc \in {"while", "chain", "returned", "ZeroDivisionError"}

\* C28: at every point of a run, and on return, best_cost is total_cost of
\* (best_place, best_orient) and is at most every entry of cost_history; no
\* move, accepted or rejected, modifies the best pair except by replacing it
\* with the accepted candidate on a strict improvement.
C28_BestConsistent ==
    /\ [](Running =>
            /\ best_cost = total_cost(best_place, best_orient)
            /\ best_cost <= current_cost
            /\ \A i \in 1..Len(cost_history) : best_cost <= cost_history[i])
    /\ [][ (Running /\ <<best_place', best_orient', best_cost'>>
                           # <<best_place, best_orient, best_cost>>) =>
               /\ EvaluatedStep /\ move'.accepted
               /\ best_cost' < best_cost
               /\ best_place' = next_place' /\ best_orient' = next_orient'
               /\ best_cost' = total_cost(next_place', next_orient') ]_vars

\* a run has returned a best state that was found during the run and left
\* behind by a later accepted move of higher cost
C28_Witness ==
    /\ pc = "returned"
    /\ best_cost < cost_history[1]
    /\ best_cost < current_cost
    /\ \E id \in BlockIds : best_place[id] # current_place[id]
    /\ best_cost < cost_history[Len(cost_history)]
====
